---- MODULE Spec2Model ----
(***************************************************************************)
(* Model of DbManager (launch.db registry of application paths plus the    *)
(* 'can-open' capability resolver).  Strings are sequences of one-char     *)
(* strings so that suffix tests, SQL LIKE, trimming and line splitting are *)
(* computed the way the code computes them.                                *)
(***************************************************************************)
EXTENDS Integers, Sequences, FiniteSets, TLC

VARIABLES
    alive,                      \* a DbManager object exists
    m_db,                       \* m_db.isOpen()
    filesystemSupportsExtattr,  \* the flag set by the constructor's probe
    tableExists,                \* launch.db holds the table 'applications'
    applications,               \* the table: how many rows hold each path
    live,                       \* canonical paths that exist on disk
    desktopText,                \* text of the .desktop file
    sidecar,                    \* state of <bundle>/Resources/can-open
    xattr,                      \* 'can-open' extended attribute per path
    last                        \* what the last call did and returned

vars == <<alive, m_db, filesystemSupportsExtattr, tableExists, applications,
          live, desktopText, sidecar, xattr, last>>

----------------------------------------------------------------------------
(* Bounds and the universe of inputs                                       *)

MaxLines == 2

NL == "\n"

Empty == <<>>

DotApp == <<".", "a", "p", "p">>

DotDesktop == <<".", "d", "e", "s", "k", "t", "o", "p">>

MimeTypePrefix == <<"M", "i", "m", "e", "T", "y", "p", "e", "=">>

PApp == <<"/", "a">> \o DotApp

PDesktop == <<"/", "x">> \o DotDesktop

PUpper == <<"/", "Y", ".", "D", "E", "S", "K", "T", "O", "P">>

PLink == <<"/", "l">>

CanonPaths == {PApp, PDesktop, PUpper}

RawPaths == CanonPaths \cup {PLink}

StorePaths == CanonPaths \cup {Empty}

\* every string the program may bind to :path
TablePaths == RawPaths \cup {Empty}

\* the symbolic link /l points at the bundle; every other path is its own target
LinkTarget(p) == IF p = PLink THEN PApp ELSE p

\* "MimeType=a;"
LineA == MimeTypePrefix \o <<"a", ";">>

\* " MimeType=b; "
LineB == <<" ">> \o MimeTypePrefix \o <<"b", ";", " ">>

\* "N=x"
LineN == <<"N", "=", "x">>

Lines == {LineA, LineB, LineN}

RECURSIVE Join(_)
Join(ls) == IF ls = <<>> THEN <<>> ELSE Head(ls) \o <<NL>> \o Join(Tail(ls))

LineSeqs == UNION { [1..n -> Lines] : n \in 0..MaxLines }

DesktopTexts == { Join(ls) : ls \in LineSeqs }

\* the desktop files of the full model: empty, two MimeType lines, no MimeType line
MainTexts == { <<>>, Join(<<LineA, LineB>>), Join(<<LineN>>) }

NoFile == "nofile"

Unreadable == "unreadable"

SidecarTexts == { <<>>, <<"a", NL>> }

SidecarStates ==
    {[kind |-> NoFile, text |-> <<>>], [kind |-> Unreadable, text |-> <<"a", NL>>]}
        \cup {[kind |-> "file", text |-> t] : t \in SidecarTexts}

OldMarker == <<"o">>

NoAttr == [present |-> FALSE, value |-> <<>>]

Attr(v) == [present |-> TRUE, value |-> v]

----------------------------------------------------------------------------
(* QString helpers                                                         *)

endsWith(s, suf) ==
    /\ Len(s) >= Len(suf)
    /\ SubSeq(s, Len(s) - Len(suf) + 1, Len(s)) = suf

startsWith(s, pre) ==
    /\ Len(s) >= Len(pre)
    /\ SubSeq(s, 1, Len(pre)) = pre

isSpace(c) == c \in {" ", "\t", NL}

RECURSIVE trimLeft(_)
trimLeft(s) ==
    IF s # <<>> /\ isSpace(Head(s)) THEN trimLeft(Tail(s)) ELSE s

RECURSIVE trimRight(_)
trimRight(s) ==
    IF s # <<>> /\ isSpace(s[Len(s)]) THEN trimRight(SubSeq(s, 1, Len(s) - 1)) ELSE s

trimmed(s) == trimRight(trimLeft(s))

\* QString::remove(0, n)
remove0(s, n) == SubSeq(s, n + 1, Len(s))

UpperLetters == <<"A","B","C","D","E","F","G","H","I","J","K","L","M",
                  "N","O","P","Q","R","S","T","U","V","W","X","Y","Z">>

LowerLetters == <<"a","b","c","d","e","f","g","h","i","j","k","l","m",
                  "n","o","p","q","r","s","t","u","v","w","x","y","z">>

\* ASCII case folding, as SQLite's LIKE applies it
Fold(c) ==
    IF \E i \in 1..26 : UpperLetters[i] = c
    THEN LowerLetters[CHOOSE i \in 1..26 : UpperLetters[i] = c]
    ELSE c

\* path LIKE '%<suf>' : any prefix, then suf compared case-insensitively
LikeSuffix(s, suf) ==
    /\ Len(s) >= Len(suf)
    /\ \A i \in 1..Len(suf) : Fold(s[Len(s) - Len(suf) + i]) = Fold(suf[i])

\* QTextStream::readLine until atEnd
RECURSIVE readLines(_)
readLines(t) ==
    IF t = <<>> THEN <<>>
    ELSE LET n == IF \E i \in 1..Len(t) : t[i] = NL
                  THEN CHOOSE i \in 1..Len(t) :
                          t[i] = NL /\ \A j \in 1..(i - 1) : t[j] # NL
                  ELSE Len(t) + 1
         IN <<SubSeq(t, 1, n - 1)>> \o readLines(SubSeq(t, n + 1, Len(t)))

----------------------------------------------------------------------------
(* The record of the last call: its arguments, results and side effects    *)

NoCall ==
    [op |-> "none", arg |-> <<>>, canon |-> <<>>, ret |-> FALSE,
     list |-> <<>>, str |-> <<>>, isNull |-> TRUE,
     attrReads |-> 0, fileReads |-> 0, attrWrites |-> <<>>, deletes |-> 0]

Call(op, arg) == [NoCall EXCEPT !.op = op, !.arg = arg]

----------------------------------------------------------------------------
(* Registry Store: the SQL statements and the methods around them          *)

\* a statement on the default connection executes only on an open database
\* that holds the table
ExecOk == m_db /\ tableExists

NoRows == [p \in TablePaths |-> 0]

HasRow(rows, path) == rows[path] > 0

\* the column declared without PRIMARY KEY: every INSERT is accepted
PrimaryKey_None(rows, path) == TRUE

\* path TEXT PRIMARY KEY: an INSERT of a key that is present is rejected
PrimaryKey(rows, path) == ~HasRow(rows, path)

\* INSERT INTO applications (path) VALUES (:path)
SqlInsert(rows, path) ==
    IF ExecOk /\ PrimaryKey(rows, path)
    THEN [ok |-> TRUE, rows |-> [rows EXCEPT ![path] = @ + 1]]
    ELSE [ok |-> FALSE, rows |-> rows]

\* the DELETE without its WHERE clause
SqlDelete_NoWhere(rows, path) ==
    IF ExecOk
    THEN [ok |-> TRUE, rows |-> [p \in DOMAIN rows |-> 0]]
    ELSE [ok |-> FALSE, rows |-> rows]

\* DELETE FROM applications WHERE path = (:path)
SqlDelete(rows, path) ==
    IF ExecOk
    THEN [ok |-> TRUE, rows |-> [rows EXCEPT ![path] = 0]]
    ELSE [ok |-> FALSE, rows |-> rows]

RECURSIVE RowCount(_, _)
RowCount(rows, paths) ==
    IF paths = {} THEN 0
    ELSE LET p == CHOOSE q \in paths : TRUE
         IN rows[p] + RowCount(rows, paths \ {p})

\* the results of a SELECT whose WHERE clause keeps the paths in hit: every
\* matching row once, in whatever order the engine returns them
SqlSelect(rows, hit) ==
    IF ~ExecOk THEN {<<>>}
    ELSE { s \in [1..RowCount(rows, hit) -> hit] :
             \A p \in hit : Cardinality({i \in DOMAIN s : s[i] = p}) = rows[p] }

\* the table dropped and created again on every start
SqlCreateTable_Replace(exists, rows) == [ok |-> TRUE, rows |-> NoRows]

\* CREATE TABLE applications(path TEXT PRIMARY KEY): a new, empty table when
\* there is none, a failed statement when there is one
SqlCreateTable(exists, rows) ==
    IF exists THEN [ok |-> FALSE, rows |-> rows]
    ELSE [ok |-> TRUE, rows |-> NoRows]

\* success is initialised to false and never set
_createTable(exists, rows) ==
    LET q == SqlCreateTable(exists, rows)
    IN [success |-> FALSE, tableExists |-> TRUE, rows |-> q.rows]

\* success left at its initial value, as in _createTable
_addApplication_NoSuccess(rows, path) ==
    IF path # Empty
    THEN [success |-> FALSE, rows |-> SqlInsert(rows, path).rows]
    ELSE [success |-> FALSE, rows |-> rows]

\* the test for the empty path left out
_addApplication_NoEmptyCheck(rows, path) ==
    LET q == SqlInsert(rows, path)
    IN [success |-> q.ok, rows |-> q.rows]

_addApplication(rows, path) ==
    IF path # Empty
    THEN LET q == SqlInsert(rows, path)
         IN [success |-> q.ok, rows |-> q.rows]
    ELSE [success |-> FALSE, rows |-> rows]

applicationExists(rows, path) == ExecOk /\ HasRow(rows, path)

\* the DELETE issued without the lookup before it
_removeApplication_NoCheck(rows, path) ==
    LET q == SqlDelete(rows, path)
    IN [success |-> q.ok, rows |-> q.rows, deletes |-> 1]

_removeApplication(rows, path) ==
    IF applicationExists(rows, path)
    THEN LET q == SqlDelete(rows, path)
         IN [success |-> q.ok, rows |-> q.rows, deletes |-> 1]
    ELSE [success |-> FALSE, rows |-> rows, deletes |-> 0]

removeAllApplications(rows) ==
    IF ExecOk THEN [success |-> TRUE, rows |-> NoRows]
    ELSE [success |-> FALSE, rows |-> rows]

_numberOfApplications(rows) == IF ExecOk THEN RowCount(rows, TablePaths) ELSE 0

\* WHERE path NOT LIKE '%.desktop'
NotLikeDesktop == {r \in TablePaths : ~LikeSuffix(r, DotDesktop)}

\* WHERE path LIKE '%.desktop'
LikeDesktop == {r \in TablePaths : LikeSuffix(r, DotDesktop)}

\* the two SELECTs of allApplications, appended in that order
allApplications(rows) ==
    { first \o second :
        first \in SqlSelect(rows, NotLikeDesktop),
        second \in SqlSelect(rows, LikeDesktop) }

----------------------------------------------------------------------------
(* Capability Resolver                                                     *)

\* QDir(path).absolutePath() in its place: symbolic links are kept
canonicalPath_NoResolve(path) ==
    IF LinkTarget(path) \in live THEN path ELSE Empty

\* QDir(path).canonicalPath(): empty when the path does not exist
canonicalPath(path) ==
    IF LinkTarget(path) \in live THEN LinkTarget(path) ELSE Empty

\* QFileInfo(p).isDir() || QFileInfo(p).isFile(), which follow a symbolic link
existsOnDisk(p) == LinkTarget(p) \in live

\* the file <bundle>/Resources/can-open as the bundle at p has it
SidecarOf(p) ==
    IF p = PApp /\ p \in live THEN sidecar ELSE [kind |-> NoFile, text |-> <<>>]

\* Fm::getAttributeValueQString(p, "can-open", ok): ok
AttrPresent(p) == p \in CanonPaths /\ xattr[p].present

\* the loop leaving at the first MimeType= line
RECURSIVE scanMime_FirstWins(_, _)
scanMime_FirstWins(lines, mime) ==
    IF lines = <<>> THEN mime
    ELSE LET getLine == trimmed(Head(lines))
         IN IF startsWith(getLine, MimeTypePrefix)
            THEN remove0(getLine, 9)
            ELSE scanMime_FirstWins(Tail(lines), mime)

\* the while loop over the lines: the last MimeType= line wins
RECURSIVE scanMime(_, _)
scanMime(lines, mime) ==
    IF lines = <<>> THEN mime
    ELSE LET getLine == trimmed(Head(lines))
         IN scanMime(Tail(lines),
                     IF startsWith(getLine, MimeTypePrefix)
                     THEN remove0(getLine, 9) ELSE mime)

\* the short-circuit left out: the lookup and the write always follow
MarkerAlreadySet_Never(canon) == FALSE

\* bool ok; Fm::getAttributeValueQString(canonicalPath, "can-open", ok); if (ok) return
MarkerAlreadySet(canon) == AttrPresent(canon)

NullString == [isNull |-> TRUE, str |-> <<>>, attrReads |-> 0, fileReads |-> 0]

getCanOpenFromFile(p) ==
    IF endsWith(p, DotApp)
    THEN IF SidecarOf(p).kind = "file"
         THEN [NullString EXCEPT !.isNull = FALSE, !.str = SidecarOf(p).text,
                                 !.fileReads = 1]
         ELSE NullString
    ELSE IF endsWith(p, DotDesktop)
    THEN IF AttrPresent(p)
         THEN [NullString EXCEPT !.attrReads = 1]
         ELSE IF p = PDesktop /\ p \in live
              THEN [isNull |-> FALSE, str |-> scanMime(readLines(desktopText), <<>>),
                    attrReads |-> 1, fileReads |-> 1]
              ELSE [isNull |-> FALSE, str |-> <<>>, attrReads |-> 1, fileReads |-> 0]
    ELSE NullString

\* only the null string taken for empty
isEmpty_NullOnly(q) == q.isNull

\* the test negated
isEmpty_Inverted(q) == ~(q.isNull \/ q.str = <<>>)

\* mime.isEmpty(), true of the null and of the empty string
isEmpty(q) == q.isNull \/ q.str = <<>>

----------------------------------------------------------------------------
(* Initial state: a DbManager just constructed on a fresh data directory   *)

Init ==
    /\ alive = TRUE
    /\ m_db \in BOOLEAN
    /\ filesystemSupportsExtattr \in BOOLEAN
    /\ tableExists = (m_db /\ _createTable(FALSE, NoRows).tableExists)
    /\ applications = NoRows
    /\ live = {}
    /\ desktopText = <<>>
    /\ sidecar = [kind |-> NoFile, text |-> <<>>]
    /\ xattr = [p \in CanonPaths |-> NoAttr]
    /\ last = Call("DbManager", <<>>)

----------------------------------------------------------------------------
(* Construction and destruction                                            *)

\* the constructor: probe /usr for extended attributes, open launch.db and,
\* if it opened, run _createTable
Construct ==
    /\ ~alive
    /\ alive' = TRUE
    /\ \E probe \in BOOLEAN : filesystemSupportsExtattr' = probe
    /\ \E opened \in BOOLEAN :
         /\ m_db' = opened
         /\ IF opened
            THEN LET t == _createTable(tableExists, applications)
                 IN /\ tableExists' = t.tableExists
                    /\ applications' = t.rows
                    /\ last' = [Call("DbManager", <<>>) EXCEPT !.ret = t.success]
            ELSE /\ UNCHANGED <<tableExists, applications>>
                 /\ last' = Call("DbManager", <<>>)
    /\ UNCHANGED <<live, desktopText, sidecar, xattr>>

\* the destructor closes the database
Destruct ==
    /\ alive
    /\ alive' = FALSE
    /\ m_db' = FALSE
    /\ last' = Call("~DbManager", <<>>)
    /\ UNCHANGED <<filesystemSupportsExtattr, tableExists, applications, live,
                   desktopText, sidecar, xattr>>

----------------------------------------------------------------------------
(* The operations of a live DbManager                                      *)

\* the call stopping when the registry insert failed
ContinueAfterAdd_OnlyOnSuccess(success) == success

\* _addApplication(canonicalPath); its result is not looked at
ContinueAfterAdd(success) == TRUE

\* the part of handleApplication that follows the registry insert; added is
\* what _addApplication returned
ResolveAndCache(path, canon, added) ==
    IF ~ContinueAfterAdd(added) \/ ~filesystemSupportsExtattr
    THEN /\ last' = [Call("handleApplication", path) EXCEPT
                        !.canon = canon, !.ret = added]
         /\ UNCHANGED xattr
    ELSE IF MarkerAlreadySet(canon)
    THEN /\ last' = [Call("handleApplication", path) EXCEPT
                        !.canon = canon, !.ret = added, !.attrReads = 1]
         /\ UNCHANGED xattr
    ELSE LET mime == getCanOpenFromFile(canon)
             seen == [Call("handleApplication", path) EXCEPT
                        !.canon = canon,
                        !.ret = added,
                        !.attrReads = 1 + mime.attrReads,
                        !.fileReads = mime.fileReads,
                        !.str = mime.str,
                        !.isNull = mime.isNull]
         IN IF isEmpty(mime)
            THEN /\ last' = seen
                 /\ UNCHANGED xattr
            ELSE \E ok \in BOOLEAN :
                    /\ xattr' = IF ok THEN [xattr EXCEPT ![canon] = Attr(mime.str)]
                                ELSE xattr
                    /\ last' = [seen EXCEPT
                                  !.attrWrites = <<[path |-> canon, value |-> mime.str,
                                                    ok |-> ok]>>]

HandleApplication(path) ==
    /\ alive
    /\ LET canon == canonicalPath(path)
       IN IF ~existsOnDisk(canon)
          THEN LET r == _removeApplication(applications, canon)
               IN /\ applications' = r.rows
                  /\ last' = [Call("handleApplication", path) EXCEPT
                                 !.canon = canon, !.deletes = r.deletes]
                  /\ UNCHANGED xattr
          ELSE LET r == _addApplication(applications, canon)
               IN /\ applications' = r.rows
                  /\ ResolveAndCache(path, canon, r.success)
    /\ UNCHANGED <<alive, m_db, filesystemSupportsExtattr, tableExists, live,
                   desktopText, sidecar>>

AddApplication(path) ==
    /\ alive
    /\ LET r == _addApplication(applications, path)
       IN /\ applications' = r.rows
          /\ last' = [Call("_addApplication", path) EXCEPT !.ret = r.success]
    /\ UNCHANGED <<alive, m_db, filesystemSupportsExtattr, tableExists, live,
                   desktopText, sidecar, xattr>>

RemoveApplication(path) ==
    /\ alive
    /\ LET r == _removeApplication(applications, path)
       IN /\ applications' = r.rows
          /\ last' = [Call("_removeApplication", path) EXCEPT
                         !.ret = r.success, !.deletes = r.deletes]
    /\ UNCHANGED <<alive, m_db, filesystemSupportsExtattr, tableExists, live,
                   desktopText, sidecar, xattr>>

RemoveAllApplications ==
    /\ alive
    /\ LET r == removeAllApplications(applications)
       IN /\ applications' = r.rows
          /\ last' = [Call("removeAllApplications", <<>>) EXCEPT !.ret = r.success]
    /\ UNCHANGED <<alive, m_db, filesystemSupportsExtattr, tableExists, live,
                   desktopText, sidecar, xattr>>

ApplicationExists(path) ==
    /\ alive
    /\ last' = [Call("applicationExists", path) EXCEPT
                   !.ret = applicationExists(applications, path)]
    /\ UNCHANGED <<alive, m_db, filesystemSupportsExtattr, tableExists, applications,
                   live, desktopText, sidecar, xattr>>

AllApplications ==
    /\ alive
    /\ \E results \in allApplications(applications) :
          last' = [Call("allApplications", <<>>) EXCEPT !.list = results]
    /\ UNCHANGED <<alive, m_db, filesystemSupportsExtattr, tableExists, applications,
                   live, desktopText, sidecar, xattr>>

GetCanOpenFromFile(path) ==
    /\ alive
    /\ LET mime == getCanOpenFromFile(path)
       IN last' = [Call("getCanOpenFromFile", path) EXCEPT
                      !.canon = path, !.str = mime.str, !.isNull = mime.isNull,
                      !.attrReads = mime.attrReads, !.fileReads = mime.fileReads]
    /\ UNCHANGED <<alive, m_db, filesystemSupportsExtattr, tableExists, applications,
                   live, desktopText, sidecar, xattr>>

----------------------------------------------------------------------------
(* The environment: files appear, change and disappear                     *)

CreatePath(p, texts, sidecars) ==
    /\ p \notin live
    /\ live' = live \cup {p}
    /\ IF p = PDesktop THEN desktopText' \in texts ELSE UNCHANGED desktopText
    /\ IF p = PApp THEN sidecar' \in sidecars ELSE UNCHANGED sidecar
    /\ last' = NoCall
    /\ UNCHANGED <<alive, m_db, filesystemSupportsExtattr, tableExists, applications,
                   xattr>>

\* a deleted path loses its content and its extended attributes
DeletePath(p) ==
    /\ p \in live
    /\ live' = live \ {p}
    /\ desktopText' = IF p = PDesktop THEN <<>> ELSE desktopText
    /\ sidecar' = IF p = PApp THEN [kind |-> NoFile, text |-> <<>>] ELSE sidecar
    /\ xattr' = [xattr EXCEPT ![p] = NoAttr]
    /\ last' = NoCall
    /\ UNCHANGED <<alive, m_db, filesystemSupportsExtattr, tableExists, applications>>

EditDesktopFile(texts) ==
    /\ PDesktop \in live
    /\ desktopText' \in texts \ {desktopText}
    /\ last' = NoCall
    /\ UNCHANGED <<alive, m_db, filesystemSupportsExtattr, tableExists, applications,
                   live, sidecar, xattr>>

EditSidecar ==
    /\ PApp \in live
    /\ sidecar' \in SidecarStates \ {sidecar}
    /\ last' = NoCall
    /\ UNCHANGED <<alive, m_db, filesystemSupportsExtattr, tableExists, applications,
                   live, desktopText, xattr>>

\* another program sets the 'can-open' attribute of a path
SetMarker(p) ==
    /\ p \in live
    /\ p \in {PApp, PDesktop}
    /\ ~xattr[p].present
    /\ xattr' = [xattr EXCEPT ![p] = Attr(OldMarker)]
    /\ last' = NoCall
    /\ UNCHANGED <<alive, m_db, filesystemSupportsExtattr, tableExists, applications,
                   live, desktopText, sidecar>>

----------------------------------------------------------------------------

\* handleApplication, removeAllApplications and the listing, on a filesystem
\* that changes under them
Next ==
    \/ Construct
    \/ Destruct
    \/ \E path \in RawPaths : HandleApplication(path)
    \/ RemoveAllApplications
    \/ AllApplications
    \/ \E p \in CanonPaths : CreatePath(p, MainTexts, SidecarStates)
    \/ \E p \in CanonPaths : DeletePath(p)
    \/ EditDesktopFile(MainTexts)
    \/ EditSidecar
    \/ \E p \in CanonPaths : SetMarker(p)

Spec == Init /\ [][Next]_vars

\* the Registry Store driven directly: add, remove, removeAll, exists and the
\* listing, next to handleApplication
NextStore ==
    \/ Construct
    \/ Destruct
    \/ \E path \in RawPaths : HandleApplication(path)
    \/ \E path \in StorePaths : AddApplication(path)
    \/ \E path \in StorePaths : RemoveApplication(path)
    \/ RemoveAllApplications
    \/ \E path \in StorePaths : ApplicationExists(path)
    \/ AllApplications
    \/ \E p \in CanonPaths : CreatePath(p, {Join(<<LineA>>)}, {[kind |-> NoFile, text |-> <<>>]})
    \/ \E p \in CanonPaths : DeletePath(p)

SpecStore == Init /\ [][NextStore]_vars

\* the capability-source lookup called directly, on a desktop file of up to
\* MaxLines lines
InitLookup ==
    /\ alive = TRUE
    /\ m_db \in BOOLEAN
    /\ filesystemSupportsExtattr \in BOOLEAN
    /\ tableExists = (m_db /\ _createTable(FALSE, NoRows).tableExists)
    /\ applications = NoRows
    /\ live = {PDesktop}
    /\ desktopText \in DesktopTexts
    /\ sidecar = [kind |-> NoFile, text |-> <<>>]
    /\ xattr = [p \in CanonPaths |-> NoAttr]
    /\ last = Call("DbManager", <<>>)

NextLookup ==
    \/ Construct
    \/ Destruct
    \/ \E path \in CanonPaths : GetCanOpenFromFile(path)
    \/ \E path \in RawPaths : HandleApplication(path)
    \/ EditDesktopFile(DesktopTexts)
    \/ \E p \in CanonPaths : SetMarker(p)

SpecLookup == InitLookup /\ [][NextLookup]_vars

----------------------------------------------------------------------------
(* Properties                                                              *)

Handled == last.op = "handleApplication"

\* how often path p occurs in the sequence list
Occurrences(list, p) == Cardinality({i \in DOMAIN list : list[i] = p})

\* C1: after handleApplication(p) on a path p that does not exist on disk, the
\* registry holds no row for p and applicationExists(p) is false, and the call
\* read no attribute, read no source file and wrote no attribute.
C1_DeadPathUnregistered ==
    (Handled /\ last.arg \in CanonPaths /\ ~existsOnDisk(last.arg)) =>
        /\ applications[last.arg] = 0
        /\ ~applicationExists(applications, last.arg)
        /\ last.attrReads = 0
        /\ last.fileReads = 0
        /\ last.attrWrites = <<>>

\* C2: on an open registry allApplications() returns every stored path exactly
\* once, and no path that ends in ".desktop" comes before a path that does not
\* end in ".desktop".
C2_DesktopEntriesLast ==
    (last.op = "allApplications" /\ ExecOk) =>
        /\ \A p \in StorePaths : Occurrences(last.list, p) = applications[p]
        /\ \A p \in StorePaths : Occurrences(last.list, p) <= 1
        /\ \A i, j \in DOMAIN last.list :
              i < j => ~(endsWith(last.list[i], DotDesktop)
                           /\ ~endsWith(last.list[j], DotDesktop))

\* C3: a handleApplication call on a live path whose 'can-open' attribute is
\* present before the call issues no attribute write and leaves every
\* attribute as it was, whatever the sidecar or desktop file contains.
C3_CachedMarkerKept ==
    [][(last'.op = "handleApplication" /\ existsOnDisk(last'.canon)
            /\ AttrPresent(last'.canon))
         => (last'.attrWrites = <<>> /\ xattr' = xattr)]_vars

\* C3 witness: handleApplication ran with the flag set on the live bundle,
\* whose marker is the old one while its sidecar file holds another text.
C3_Witness ==
    /\ Handled
    /\ filesystemSupportsExtattr
    /\ last.canon = PApp
    /\ PApp \in live
    /\ xattr[PApp] = Attr(OldMarker)
    /\ sidecar.kind = "file"
    /\ sidecar.text # <<>>
    /\ sidecar.text # OldMarker
    /\ last.attrReads = 1
    /\ last.attrWrites = <<>>

\* C4: with the flag set, on a live path with no marker cached whose lookup
\* yields a non-empty string s, handleApplication issues exactly one attribute
\* write, of s on the canonical path, and if the write succeeds the marker
\* read back is s.
C4_NewMarkerWritten ==
    [][(/\ last'.op = "handleApplication"
        /\ filesystemSupportsExtattr
        /\ existsOnDisk(last'.canon)
        /\ ~AttrPresent(last'.canon)
        /\ getCanOpenFromFile(last'.canon).str # <<>>)
         => /\ Len(last'.attrWrites) = 1
            /\ last'.attrWrites[1].path = last'.canon
            /\ last'.attrWrites[1].value = getCanOpenFromFile(last'.canon).str
            /\ last'.attrWrites[1].ok =>
                 xattr'[last'.canon] = Attr(getCanOpenFromFile(last'.canon).str)
            /\ \A q \in CanonPaths \ {last'.canon} : xattr'[q] = xattr[q]]_vars

\* C4 witness: handleApplication wrote the two-line desktop file's capability
\* string as the marker of that file, and the write succeeded.
C4_Witness ==
    /\ Handled
    /\ filesystemSupportsExtattr
    /\ last.canon = PDesktop
    /\ Len(last.attrWrites) = 1
    /\ last.attrWrites[1].ok
    /\ last.attrWrites[1].value = <<"b", ";">>
    /\ xattr[PDesktop] = Attr(<<"b", ";">>)

\* C5: the registry never holds two rows with the same path, and an add of a
\* path that is present reports failure and leaves the rows as they were.
C5_OneRowPerPath ==
    /\ [](\A p \in StorePaths : applications[p] <= 1)
    /\ [][(last'.op = "_addApplication" /\ HasRow(applications, last'.arg))
            => (~last'.ret /\ applications' = applications)]_vars

\* C5 witness: an add of a path that is present in the open registry has
\* reported failure, and the path still has its one row.
C5_Witness ==
    /\ last.op = "_addApplication"
    /\ last.arg # Empty
    /\ ExecOk
    /\ ~last.ret
    /\ applications[last.arg] = 1

\* C6: neither the destructor nor the constructor, which runs the table
\* creation against the table that exists, changes the stored paths.
C6_RestartKeepsRows ==
    [][(last'.op = "DbManager" \/ last'.op = "~DbManager")
         => applications' = applications]_vars

\* C6 witness: a DbManager has been constructed again on a database that
\* opened and still holds rows.
C6_Witness ==
    /\ last.op = "DbManager"
    /\ alive
    /\ m_db
    /\ tableExists
    /\ \E p \in CanonPaths : applicationExists(applications, p)

\* C7: the flag changes only in the constructor, and neither handleApplication
\* nor getCanOpenFromFile reads or writes an attribute while the flag is
\* false.
C7_FlagGuardsAttributes ==
    [][/\ last'.op # "DbManager" =>
            filesystemSupportsExtattr' = filesystemSupportsExtattr
       /\ (last'.op \in {"handleApplication", "getCanOpenFromFile"}
            /\ ~filesystemSupportsExtattr)
            => (last'.attrReads = 0 /\ last'.attrWrites = <<>>)]_vars

\* C8: after remove(p), exists(p) is false and the presence of every other
\* path is what it was.
C8_RemoveThenAbsent ==
    [][last'.op = "_removeApplication"
         => /\ ~applicationExists(applications', last'.arg)
            /\ \A q \in StorePaths \ {last'.arg} :
                 applicationExists(applications', q) = applicationExists(applications, q)]_vars

\* C8 witness: a remove has deleted the row of its path while another path
\* keeps its row.
C8_Witness ==
    /\ last.op = "_removeApplication"
    /\ last.ret
    /\ last.deletes = 1
    /\ ~applicationExists(applications, last.arg)
    /\ \E q \in StorePaths \ {last.arg} : applicationExists(applications, q)

\* C9: an add of a non-empty path that is absent from an open registry
\* reports success, exists(p) is true afterwards, and every other path that
\* was absent stays absent.
C9_AddThenPresent ==
    [][(/\ last'.op = "_addApplication"
        /\ last'.arg # Empty
        /\ ExecOk
        /\ ~HasRow(applications, last'.arg))
         => /\ last'.ret
            /\ applicationExists(applications', last'.arg)
            /\ \A q \in StorePaths \ {last'.arg} :
                 ~applicationExists(applications, q) => ~applicationExists(applications', q)]_vars

\* C9 witness: an add has succeeded, its path exists, and a path that differs
\* from it only by case, like every other path not added, does not.
C9_Witness ==
    /\ last.op = "_addApplication"
    /\ last.ret
    /\ last.arg = PUpper
    /\ applicationExists(applications, PUpper)
    /\ ~applicationExists(applications, PDesktop)
    /\ ~applicationExists(applications, PApp)

\* the value a line declares: LineA and LineB are MimeType lines, LineN is not
DeclaresMime(line) == line \in {LineA, LineB}

DeclaredValue(line) == IF line = LineA THEN <<"a", ";">> ELSE <<"b", ";">>

ExpectedMime(ls) ==
    LET M == {i \in DOMAIN ls : DeclaresMime(ls[i])}
    IN IF M = {} THEN <<>>
       ELSE DeclaredValue(ls[CHOOSE i \in M : \A j \in M : j <= i])

\* C10: on the desktop file with no marker cached, the lookup returns what
\* follows "MimeType=" on the last trimmed line that starts with it, the ";"
\* included, and the empty string when no line starts with it.
C10_LastMimeTypeLineWins ==
    (/\ last.op = "getCanOpenFromFile"
     /\ last.canon = PDesktop
     /\ PDesktop \in live
     /\ ~AttrPresent(PDesktop))
      => \A ls \in LineSeqs :
            Join(ls) = desktopText => last.str = ExpectedMime(ls)

\* C10 witness: the lookup ran on the file "MimeType=a;" then " MimeType=b; "
\* and returned "b;".
C10_Witness ==
    /\ last.op = "getCanOpenFromFile"
    /\ last.canon = PDesktop
    /\ ~AttrPresent(PDesktop)
    /\ desktopText = Join(<<LineA, LineB>>)
    /\ last.str = <<"b", ";">>

\* what a caller sees of a lookup: the string returned and whether it is null
Outcome(q) == [isNull |-> q.isNull, str |-> q.str]

\* the paths on which the lookup finds no capability source: a suffix that is
\* neither ".app" nor ".desktop", or a bundle without a sidecar file
NoSourcePaths ==
    {q \in CanonPaths :
        \/ ~endsWith(q, DotApp) /\ ~endsWith(q, DotDesktop)
        \/ endsWith(q, DotApp) /\ SidecarOf(q).kind = NoFile}

\* C11: the lookup on a ".desktop" path whose 'can-open' attribute is present
\* returns an outcome that differs from the outcome of the lookup on a path
\* with an unsupported suffix or a bundle with no sidecar file.
C11_AlreadyResolvedDistinct ==
    (/\ last.op = "getCanOpenFromFile"
     /\ endsWith(last.canon, DotDesktop)
     /\ AttrPresent(last.canon))
      => \A q \in NoSourcePaths : Outcome(last) # Outcome(getCanOpenFromFile(q))

\* C12: on a DbManager whose database did not open, add, remove and removeAll
\* report failure, applicationExists returns false, allApplications returns
\* the empty list, and handleApplication on a live path, whose insert fails,
\* reads no attribute and writes none.
C12_ClosedStoreNoOp ==
    (alive /\ ~m_db) =>
        /\ last.op \in {"_addApplication", "_removeApplication",
                        "removeAllApplications", "applicationExists"} => ~last.ret
        /\ last.op = "allApplications" => last.list = <<>>
        /\ (Handled /\ existsOnDisk(last.canon) /\ last.canon # Empty) =>
              /\ ~last.ret
              /\ last.attrReads = 0
              /\ last.attrWrites = <<>>

\* C13: the _createTable run by the constructor on an opened database returns
\* true when the table did not exist before, and false when it did.
C13_CreateTableReportsCreation ==
    [][(last'.op = "DbManager" /\ m_db') => (last'.ret = ~tableExists)]_vars

\* C14: remove(p) reports success only when exists(p) was true and the DELETE
\* ran; when p is absent it issues no DELETE, reports failure and leaves the
\* rows as they were.
C14_CheckThenDelete ==
    [][last'.op = "_removeApplication"
         => /\ last'.ret =>
                 (applicationExists(applications, last'.arg) /\ last'.deletes = 1)
            /\ ~applicationExists(applications, last'.arg) =>
                 /\ last'.deletes = 0
                 /\ ~last'.ret
                 /\ applications' = applications]_vars

\* C14 witness: a remove of a path that is absent from the open registry,
\* which holds other rows, has reported failure without a DELETE.
C14_Witness ==
    /\ last.op = "_removeApplication"
    /\ ExecOk
    /\ last.arg \in CanonPaths
    /\ ~last.ret
    /\ last.deletes = 0
    /\ \E q \in CanonPaths \ {last.arg} : applicationExists(applications, q)

\* C15: the registry never holds a row whose path is the empty string, and an
\* add of the empty path reports failure and leaves the rows as they were.
C15_NoEmptyPathRow ==
    /\ [](applications[Empty] = 0)
    /\ [][(last'.op = "_addApplication" /\ last'.arg = Empty)
            => (~last'.ret /\ applications' = applications)]_vars

\* C15 witness: an add of the empty path on the open registry has reported
\* failure.
C15_Witness ==
    /\ last.op = "_addApplication"
    /\ last.arg = Empty
    /\ ExecOk
    /\ ~last.ret
    /\ applications[Empty] = 0

\* the attribute reads, file reads and writes of the resolution and caching
\* steps on canon, as the filesystem before the call determines them
ResolutionSteps(canon) ==
    IF ~filesystemSupportsExtattr
    THEN last'.attrReads = 0 /\ last'.fileReads = 0 /\ last'.attrWrites = <<>>
    ELSE IF AttrPresent(canon)
    THEN last'.attrReads = 1 /\ last'.fileReads = 0 /\ last'.attrWrites = <<>>
    ELSE /\ last'.attrReads = 1 + getCanOpenFromFile(canon).attrReads
         /\ last'.fileReads = getCanOpenFromFile(canon).fileReads
         /\ IF getCanOpenFromFile(canon).str = <<>>
            THEN last'.attrWrites = <<>>
            ELSE /\ Len(last'.attrWrites) = 1
                 /\ last'.attrWrites[1].path = canon
                 /\ last'.attrWrites[1].value = getCanOpenFromFile(canon).str

\* C16: handleApplication on a live path takes the resolution and caching
\* steps the filesystem determines whether or not the path is registered, and
\* when it is registered the insert fails and the rows stay as they were.
C16_DuplicateInsertSwallowed ==
    [][(last'.op = "handleApplication" /\ last'.canon # Empty
            /\ existsOnDisk(last'.canon))
         => /\ ResolutionSteps(last'.canon)
            /\ HasRow(applications, last'.canon) =>
                 (~last'.ret /\ applications' = applications)]_vars

\* C16 witness: handleApplication on a live path that was registered: the
\* insert failed on the open registry and the call went on to write the marker.
C16_Witness ==
    /\ Handled
    /\ ExecOk
    /\ existsOnDisk(last.canon)
    /\ last.canon # Empty
    /\ ~last.ret
    /\ applications[last.canon] = 1
    /\ Len(last.attrWrites) = 1

\* the desktop file has no line that declares a MimeType
NoMimeTypeLine ==
    \A ls \in LineSeqs :
        Join(ls) = desktopText => \A i \in DOMAIN ls : ~DeclaresMime(ls[i])

\* the live path canon has nothing to cache: a suffix other than ".app" and
\* ".desktop", a bundle with no readable sidecar file or with an empty one, a
\* desktop file with no MimeType line
NothingToCache(canon) ==
    \/ ~endsWith(canon, DotApp) /\ ~endsWith(canon, DotDesktop)
    \/ canon = PApp /\ sidecar.kind \in {NoFile, Unreadable}
    \/ canon = PApp /\ sidecar.kind = "file" /\ sidecar.text = <<>>
    \/ canon = PDesktop /\ NoMimeTypeLine

\* C17: handleApplication on a live path that has nothing to cache writes no
\* attribute and leaves every attribute as it was, and on an open registry
\* the path is registered afterwards.
C17_NothingFoundNothingWritten ==
    [][(/\ last'.op = "handleApplication"
        /\ last'.canon # Empty
        /\ existsOnDisk(last'.canon)
        /\ NothingToCache(last'.canon))
         => /\ last'.attrWrites = <<>>
            /\ xattr' = xattr
            /\ ExecOk => applicationExists(applications', last'.canon)]_vars

\* C17 witness: with the flag set, handleApplication has just registered the
\* bundle, read its empty sidecar file and written nothing.
C17_Witness ==
    /\ Handled
    /\ filesystemSupportsExtattr
    /\ last.canon = PApp
    /\ sidecar = [kind |-> "file", text |-> <<>>]
    /\ ~AttrPresent(PApp)
    /\ last.fileReads = 1
    /\ last.attrWrites = <<>>
    /\ last.ret
    /\ applicationExists(applications, PApp)

FailedWrite(call) ==
    /\ call.op = "handleApplication"
    /\ Len(call.attrWrites) = 1
    /\ ~call.attrWrites[1].ok

\* C18: after a handleApplication whose attribute write failed the marker is
\* absent and, on an open registry, the path is registered; a handleApplication
\* on the same path right after it attempts the write of the same string
\* again.
C18_FailedWriteRetried ==
    /\ [](FailedWrite(last) =>
            /\ ~AttrPresent(last.canon)
            /\ ExecOk => applicationExists(applications, last.canon))
    /\ [][(FailedWrite(last) /\ last'.op = "handleApplication"
             /\ last'.arg = last.arg)
            => /\ Len(last'.attrWrites) = 1
               /\ last'.attrWrites[1].path = last.attrWrites[1].path
               /\ last'.attrWrites[1].value = last.attrWrites[1].value]_vars

\* C18 witness: a handleApplication on a path that was registered before it
\* has attempted the write, the write failed, and the marker is absent.
C18_Witness ==
    /\ FailedWrite(last)
    /\ ExecOk
    /\ ~last.ret
    /\ applicationExists(applications, last.canon)
    /\ ~AttrPresent(last.canon)

\* C19: a handleApplication that follows a handleApplication on the same path
\* whose attribute writes, if any, succeeded leaves the rows and the
\* attributes as they were and writes no attribute.
C19_HandleTwiceIsHandleOnce ==
    [][(/\ Handled
        /\ \A i \in DOMAIN last.attrWrites : last.attrWrites[i].ok
        /\ last'.op = "handleApplication"
        /\ last'.arg = last.arg)
         => /\ applications' = applications
            /\ xattr' = xattr
            /\ last'.attrWrites = <<>>]_vars

\* C19 witness: a handleApplication on the registered desktop file found the
\* marker that an earlier call wrote from the file and wrote nothing.
C19_Witness ==
    /\ Handled
    /\ ExecOk
    /\ filesystemSupportsExtattr
    /\ last.canon = PDesktop
    /\ ~last.ret
    /\ xattr[PDesktop] = Attr(<<"b", ";">>)
    /\ last.attrReads = 1
    /\ last.attrWrites = <<>>

\* C20: handleApplication(p) changes no row other than that of the canonical
\* form of p, writes at most one attribute, on that path, and leaves the
\* attributes of every other path as they were.
C20_OnlyOwnPath ==
    [][last'.op = "handleApplication"
         => /\ \A q \in TablePaths \ {LinkTarget(last'.arg)} :
                 applications'[q] = applications[q]
            /\ Len(last'.attrWrites) <= 1
            /\ \A i \in DOMAIN last'.attrWrites :
                 last'.attrWrites[i].path = LinkTarget(last'.arg)
            /\ \A q \in CanonPaths \ {LinkTarget(last'.arg)} :
                 xattr'[q] = xattr[q]]_vars

\* C20 witness: handleApplication on the symbolic link registered the bundle
\* it points at and wrote the bundle's marker, while the desktop file keeps
\* its row and has no marker.
C20_Witness ==
    /\ Handled
    /\ last.arg = PLink
    /\ last.canon = PApp
    /\ last.ret
    /\ applications[PApp] = 1
    /\ applications[PLink] = 0
    /\ applications[PDesktop] = 1
    /\ Len(last.attrWrites) = 1
    /\ last.attrWrites[1].ok
    /\ xattr[PApp].present
    /\ ~xattr[PDesktop].present

====
